---- MODULE Spec2Model ----
(***************************************************************************)
(* StockUniverse (src/locnguyen/download_data.py): the persisted price     *)
(* panel, the normalized returns derived from it and the cleaning of the   *)
(* return panel.                                                           *)
(*                                                                         *)
(* A panel (pandas DataFrame) is a record                                  *)
(*   nlevels : number of levels of the column index (2 = MultiIndex        *)
(*             (Indicator, Ticker), 1 = flat index, 0 = attribute not set) *)
(*   index   : the sequence of dates (ascending integers)                  *)
(*   columns : the sequence of column labels, each a tuple of nlevels      *)
(*             strings                                                     *)
(*   data    : one sequence of cells per column, each as long as index     *)
(* A cell (float64) is a pair <<n, d>>: the rational n/d for d > 0, and    *)
(* <<0,0>> = NaN (pandas' missing value), <<1,0>> = +inf, <<-1,0>> = -inf. *)
(***************************************************************************)
EXTENDS Integers, Sequences, FiniteSets, TLC

VARIABLES
    prices_df,     \* self.prices_df
    returns_df,    \* self.returns_df
    clean_df,      \* self.clean_df
    tickers,       \* self.tickers
    start,         \* self.start
    end,           \* self.end
    pickle,        \* the table stored in the file at the path used
    err,           \* the exception the last call raised, "none" if it returned
    call,          \* the last call made: its name and arguments
    step1_df,      \* self.clean_df as line 148 leaves it
    step3_df,      \* self.clean_df as line 152 leaves it
    dropped_na,    \* the labels printed by line 146
    dropped_late   \* the labels printed by line 157

vars == <<prices_df, returns_df, clean_df, tickers, start, end, pickle, err,
          call, step1_df, step3_df, dropped_na, dropped_late>>

---------------------------------------------------------------------------
(* Bounds of the model *)

\* the longest date index of a return panel handed to preprocess_returns_df
MaxDates == 4

\* the longest date index of a price panel
MaxPriceDates == 2

---------------------------------------------------------------------------
(* float64 cells *)

NaN == <<0, 0>>
Inf == <<1, 0>>
NegInf == <<-1, 0>>

Num(n) == <<n, 1>>

IsNull(x) == x = NaN

IsFinite(x) == x[2] # 0

Abs(n) == IF n < 0 THEN -n ELSE n

RECURSIVE Gcd(_, _)
Gcd(a, b) == IF b = 0 THEN a ELSE Gcd(b, a % b)

\* the rational n/d (d # 0) in lowest terms with a positive denominator
Norm(n, d) ==
    LET g == Gcd(Abs(n), Abs(d))
        s == IF d < 0 THEN -1 ELSE 1
    IN  <<(s * n) \div g, (s * d) \div g>>

Sign(n) == IF n > 0 THEN 1 ELSE IF n < 0 THEN -1 ELSE 0

\* IEEE-754 subtraction a - b
Sub(a, b) ==
    IF IsNull(a) \/ IsNull(b) THEN NaN
    ELSE IF IsFinite(a) /\ IsFinite(b)
         THEN Norm(a[1] * b[2] - b[1] * a[2], a[2] * b[2])
    ELSE IF ~IsFinite(a) /\ ~IsFinite(b)
         THEN (IF a = b THEN NaN ELSE a)
    ELSE IF ~IsFinite(a) THEN a
    ELSE <<-b[1], 0>>

\* IEEE-754 division a / b (numpy: no exception; x/0 is +-inf, 0/0 is NaN)
Div(a, b) ==
    IF IsNull(a) \/ IsNull(b) THEN NaN
    ELSE IF IsFinite(a) /\ IsFinite(b)
         THEN (IF b[1] = 0
               THEN (IF a[1] = 0 THEN NaN ELSE <<Sign(a[1]), 0>>)
               ELSE Norm(a[1] * b[2], a[2] * b[1]))
    ELSE IF ~IsFinite(a) /\ ~IsFinite(b) THEN NaN
    ELSE IF ~IsFinite(a)
         THEN <<a[1] * (IF b[1] < 0 THEN -1 ELSE 1), 0>>
    ELSE Num(0)

---------------------------------------------------------------------------
(* panels *)

\* an attribute that has not been assigned
Unset == [nlevels |-> 0, index |-> <<>>, columns |-> <<>>, data |-> <<>>]

IsSet(p) == p.nlevels # 0

NRows(p) == Len(p.index)

NCols(p) == Len(p.columns)

\* the positions 1..n that are in S, ascending
Positions(n, S) == SelectSeq([i \in 1..n |-> i], LAMBDA i : i \in S)

\* the panel with the columns at the positions `cols` (a sequence), in that order
TakeCols(p, cols) ==
    [p EXCEPT !.columns = [i \in 1..Len(cols) |-> p.columns[cols[i]]],
              !.data = [i \in 1..Len(cols) |-> p.data[cols[i]]]]

\* the panel with the rows at the positions `rows` (a sequence), in that order
TakeRows(p, rows) ==
    [p EXCEPT !.index = [i \in 1..Len(rows) |-> p.index[rows[i]]],
              !.data = [c \in 1..NCols(p) |->
                           [i \in 1..Len(rows) |-> p.data[c][rows[i]]]]]

\* the labels of the columns at the positions in S, in column order
Labels(p, S) ==
    LET pos == Positions(NCols(p), S)
    IN  [i \in 1..Len(pos) |-> p.columns[pos[i]]]

---------------------------------------------------------------------------
(* preprocess_returns_df *)

\* the value of first_valid_index() for a column with no valid value
None == -1

\* thresholds nathreshold_ticker = thr[1] / thr[2]: dyadic, so that the
\* float products len(index) * thr and len(index) * (1 - thr) are exact
Thresholds == {<<1, 4>>, <<1, 2>>, <<3, 4>>}

\* the default nathreshold_ticker = 0.25
DefaultThreshold == <<1, 4>>

\* line 144: self.returns_df.isnull().sum(axis='index')
tickers_nacount(p) ==
    [c \in 1..NCols(p) |->
        Cardinality({r \in 1..NRows(p) : IsNull(p.data[c][r])})]

\* line 145: tickers_nacount[tickers_nacount >= len(index) * nathreshold_ticker]
tickers_to_drop_na(p, thr) ==
    {c \in 1..NCols(p) : tickers_nacount(p)[c] * thr[2] >= NRows(p) * thr[1]}

\* line 148 as a bug would have it: thresh = len(index) * nathreshold_ticker
dropna_columns_thr(p, thr) ==
    TakeCols(p, Positions(NCols(p),
        {c \in 1..NCols(p) :
            (NRows(p) - tickers_nacount(p)[c]) * thr[2] >= NRows(p) * thr[1]}))

\* line 148: dropna(axis='columns', thresh=len(index) * (1 - nathreshold_ticker))
\* keeps the columns that hold at least `thresh` non-missing values
dropna_columns(p, thr) ==
    TakeCols(p, Positions(NCols(p),
        {c \in 1..NCols(p) :
            (NRows(p) - tickers_nacount(p)[c]) * thr[2]
                >= NRows(p) * (thr[2] - thr[1])}))

\* forward-fill of one column: the most recent prior non-missing value
ffill_column(col) ==
    LET f[r \in 0..Len(col)] ==
            IF r = 0 THEN NaN
            ELSE IF ~IsNull(col[r]) THEN col[r] ELSE f[r - 1]
    IN  [r \in 1..Len(col) |-> f[r]]

\* line 150: fillna(method='ffill')
ffill(p) == [p EXCEPT !.data = [c \in 1..NCols(p) |-> ffill_column(p.data[c])]]

\* line 152 as a bug would have it: the first row always dropped
dropna_rows_first(p) ==
    TakeRows(p, Positions(NRows(p), 2..NRows(p)))

\* line 152 as a bug would have it: how='any', every row with a missing value
dropna_rows_any(p) ==
    TakeRows(p, Positions(NRows(p),
        {r \in 1..NRows(p) : \A c \in 1..NCols(p) : ~IsNull(p.data[c][r])}))

\* line 152: dropna(axis='index', how='all') drops the rows in which every
\* value is missing (every row of a panel without columns)
dropna_rows(p) ==
    TakeRows(p, Positions(NRows(p),
        {r \in 1..NRows(p) : \E c \in 1..NCols(p) : ~IsNull(p.data[c][r])}))

\* pd.Series.first_valid_index: the date of the first non-missing value
first_valid_index(p, c) ==
    LET valid == {r \in 1..NRows(p) : ~IsNull(p.data[c][r])}
    IN  IF valid = {} THEN None
        ELSE p.index[CHOOSE r \in valid : \A q \in valid : r <= q]

\* line 156 as a bug would have it: no column found to start late
tickers_to_drop_late_none(p) == {}

\* lines 154-156: the columns whose first valid date is not the first date
tickers_to_drop_late(p) ==
    {c \in 1..NCols(p) : first_valid_index(p, c) # p.index[1]}

\* lines 143-162: the outcome of preprocess_returns_df on the panel p
Preprocess(p, thr) ==
    LET reported == Labels(p, tickers_to_drop_na(p, thr))
        s1 == dropna_columns(p, thr)
        s3 == dropna_rows(ffill(s1))
    IN  IF NRows(s3) = 0
        THEN \* line 154: self.clean_df.index[0] raises
             [err |-> "IndexError", clean |-> s3, step1 |-> s1, step3 |-> s3,
              dropped_na |-> reported, dropped_late |-> <<>>]
        ELSE LET late == tickers_to_drop_late(s3)
             IN  [err |-> "none",
                  clean |-> TakeCols(s3, Positions(NCols(s3),
                                         (1..NCols(s3)) \ late)),
                  step1 |-> s1, step3 |-> s3,
                  dropped_na |-> reported,
                  dropped_late |-> Labels(s3, late)]

NoCall == [op |-> "none", sel |-> <<>>, thr |-> <<0, 1>>, upd |-> FALSE]

preprocess_returns_df(thr) ==
    /\ IsSet(returns_df)
    /\ \E r \in {Preprocess(returns_df, thr)} :
           /\ err' = r.err
           /\ clean_df' = r.clean
           /\ step1_df' = r.step1
           /\ step3_df' = r.step3
           /\ dropped_na' = r.dropped_na
           /\ dropped_late' = r.dropped_late
    /\ call' = [NoCall EXCEPT !.op = "preprocess_returns_df", !.thr = thr]
    /\ UNCHANGED <<prices_df, returns_df, tickers, start, end, pickle>>

---------------------------------------------------------------------------
(* The cleaning of a return panel: Init draws the return panel *)

\* the cells of a return panel: missing, or one of two values
ReturnCells == {NaN, Num(1), Num(2)}

ReturnColumns == << <<"Adj Close", "A">>, <<"Adj Close", "B">> >>

\* the panel with the given dates, columns and data
Panel(dates, columns, d) ==
    [nlevels |-> 2, index |-> dates, columns |-> columns, data |-> d]

\* the date index of n trading days
DateIndex(n) == [i \in 1..n |-> i]

InitRest ==
    /\ clean_df = Unset
    /\ step1_df = Unset
    /\ step3_df = Unset
    /\ dropped_na = <<>>
    /\ dropped_late = <<>>
    /\ err = "none"
    /\ call = NoCall

Init ==
    /\ \E n \in 1..MaxDates :
         \E d \in [1..Len(ReturnColumns) -> [1..n -> ReturnCells]] :
            returns_df = Panel(DateIndex(n), ReturnColumns, d)
    /\ prices_df = Unset
    /\ tickers = <<>>
    /\ start = None
    /\ end = None
    /\ pickle = Unset
    /\ InitRest

Next == \E thr \in Thresholds : preprocess_returns_df(thr)

Spec == Init /\ [][Next]_vars

---------------------------------------------------------------------------
(* calc_normalized_returns *)

\* lines 26-33: self.indicator_translation
indicator_translation ==
    [c \in {"A", "O", "H", "L", "C", "V"} |->
        CASE c = "A" -> "Adj Close"
          [] c = "O" -> "Open"
          [] c = "H" -> "High"
          [] c = "L" -> "Low"
          [] c = "C" -> "Close"
          [] c = "V" -> "Volume"]

\* lines 66-70 as a bug would have it: the codes looked up in sorted order
\* of their names, whatever the order requested
translate_sorted(indicator_select) ==
    LET names == [i \in 1..Len(indicator_select) |->
                     indicator_translation[indicator_select[i]]]
    IN  SelectSeq(<<"Adj Close", "Close", "High", "Low", "Open", "Volume">>,
                  LAMBDA n : \E i \in 1..Len(names) : names[i] = n)

\* lines 66-70 and 110-114: the names of the selected indicators
translate(indicator_select) ==
    [i \in 1..Len(indicator_select) |->
        indicator_translation[indicator_select[i]]]

\* the elements of s in the order of their first appearance (Index.unique)
Unique(s) ==
    LET pos == Positions(Len(s), {i \in 1..Len(s) : \A j \in 1..(i - 1) : s[j] # s[i]})
    IN  [i \in 1..Len(pos) |-> s[pos[i]]]

\* columns.get_level_values(k - 1): the k-th component of every label
get_level_values(p, k) == [c \in 1..NCols(p) |-> p.columns[c][k]]

RECURSIVE Flatten(_)
Flatten(ss) == IF ss = <<>> THEN <<>> ELSE Head(ss) \o Flatten(Tail(ss))

\* pd.MultiIndex.from_product([a, b]): the pairs, a-major
from_product(a, b) ==
    Flatten([i \in 1..Len(a) |-> [j \in 1..Len(b) |-> <<a[i], b[j]>>]])

\* lines 71 and 116: prices_df.loc[:, indicator_columns]: for each requested
\* name in turn, the columns whose first level is that name, in panel order
loc_columns(p, indicator_columns) ==
    TakeCols(p, Flatten([i \in 1..Len(indicator_columns) |->
        Positions(NCols(p),
            {c \in 1..NCols(p) : p.columns[c][1] = indicator_columns[i]})]))

\* df.shift(): every column moved down one row, the first row missing
shift(col) == [r \in 1..Len(col) |-> IF r = 1 THEN NaN ELSE col[r - 1]]

\* line 118: (df_to_calc - df_to_calc.shift()) / df_to_calc.shift()
returns_of_column(col) ==
    [r \in 1..Len(col) |-> Div(Sub(col[r], shift(col)[r]), shift(col)[r])]

\* lines 120-124 as a bug would have it: the indicator names of the whole
\* price panel, not of the selected columns
indicator_names_of_panel(p, df_to_calc) ==
    SelectSeq(Unique(get_level_values(p, 1)),
              LAMBDA n : \E c \in 1..NCols(df_to_calc) : df_to_calc.columns[c][1] = n)

\* lines 120-124: df_to_calc.columns.get_level_values(0).unique()
indicator_names(p, df_to_calc) == Unique(get_level_values(df_to_calc, 1))

\* lines 110-136: the outcome of calc_normalized_returns on the panel p
CalcReturns(p, indicator_select) ==
    IF \E i \in 1..Len(indicator_select) :
          indicator_select[i] \notin DOMAIN indicator_translation
    THEN \* line 112: the dictionary lookup raises
         [err |-> "KeyError", returns |-> Unset]
    ELSE
    LET indicator_columns == translate(indicator_select)
    IN  IF \E i \in 1..Len(indicator_columns) :
              \A c \in 1..NCols(p) : p.columns[c][1] # indicator_columns[i]
        THEN \* line 116: a requested label is not in the columns
             [err |-> "KeyError", returns |-> Unset]
        ELSE IF p.nlevels < 2
        THEN \* line 125: get_level_values(1) of a flat index
             [err |-> "IndexError", returns |-> Unset]
        ELSE
        LET df_to_calc == loc_columns(p, indicator_columns)
            names == indicator_names(p, df_to_calc)
            ticker_names == Unique(get_level_values(df_to_calc, 2))
            columns == from_product(names, ticker_names)
        IN  IF Len(columns) # NCols(df_to_calc)
            THEN \* line 128: the shape of the values does not fit the columns
                 [err |-> "ValueError", returns |-> Unset]
            ELSE [err |-> "none",
                  returns |->
                      [nlevels |-> 2,
                       index |-> df_to_calc.index,
                       columns |-> columns,
                       data |-> [c \in 1..NCols(df_to_calc) |->
                                    returns_of_column(df_to_calc.data[c])]]]

calc_normalized_returns(indicator_select) ==
    /\ IsSet(prices_df)
    /\ \E r \in {CalcReturns(prices_df, indicator_select)} :
          /\ err' = r.err
          /\ returns_df' = IF r.err = "none" THEN r.returns ELSE returns_df
    /\ call' = [NoCall EXCEPT !.op = "calc_normalized_returns",
                              !.sel = indicator_select]
    /\ UNCHANGED <<prices_df, clean_df, tickers, start, end, pickle,
                   step1_df, step3_df, dropped_na, dropped_late>>

---------------------------------------------------------------------------
(* The returns of a price panel: Init draws the price panel *)

\* the columns of a downloaded panel: every indicator for every ticker
PriceColumns == from_product(<<"Adj Close", "Volume">>, <<"A", "B">>)

\* the cells of a price column: missing, or a positive price
PriceCells == {NaN, Num(1), Num(2)}

\* the cells of a volume column: zero, or a positive volume
VolumeCells == {Num(0), Num(1)}

\* the state download_data leaves for a panel of n dates with the given data
Downloaded(n, adj, vol) ==
    /\ prices_df = Panel(DateIndex(n), PriceColumns, adj \o vol)
    /\ tickers = <<"A", "B">>
    /\ start = 1
    /\ end = n + 1

\* the indicator selections handed to calc_normalized_returns: the codes of
\* the panel's indicators, alone and together in either order
Selections == {<<"A">>, <<"V">>, <<"A", "V">>, <<"V", "A">>}

InitReturns ==
    /\ \E n \in 1..MaxPriceDates :
         \E adj \in [1..2 -> [1..n -> PriceCells]],
            vol \in [1..2 -> [1..n -> VolumeCells]] :
            Downloaded(n, adj, vol)
    /\ returns_df = Unset
    /\ pickle = Unset
    /\ InitRest

NextReturns == \E sel \in Selections : calc_normalized_returns(sel)

SpecReturns == InitReturns /\ [][NextReturns]_vars

---------------------------------------------------------------------------
(* store_pickle and read_pickle *)

\* lines 65-75: the outcome of store_pickle on the panel p
StorePickle(p, indicator_select) ==
    IF \E i \in 1..Len(indicator_select) :
          indicator_select[i] \notin DOMAIN indicator_translation
    THEN \* line 68: the dictionary lookup raises
         [err |-> "KeyError", saved |-> Unset]
    ELSE LET indicator_columns == translate(indicator_select)
         IN  IF \E i \in 1..Len(indicator_columns) :
                   \A c \in 1..NCols(p) : p.columns[c][1] # indicator_columns[i]
             THEN \* line 71: a requested label is not in the columns
                  [err |-> "KeyError", saved |-> Unset]
             ELSE [err |-> "none", saved |-> loc_columns(p, indicator_columns)]

store_pickle(indicator_select) ==
    /\ IsSet(prices_df)
    /\ \E r \in {StorePickle(prices_df, indicator_select)} :
          /\ err' = r.err
          /\ pickle' = IF r.err = "none" THEN r.saved ELSE pickle
    /\ call' = [NoCall EXCEPT !.op = "store_pickle", !.sel = indicator_select]
    /\ UNCHANGED <<prices_df, returns_df, clean_df, tickers, start, end,
                   step1_df, step3_df, dropped_na, dropped_late>>

\* lines 87-94: read_pickle
read_pickle(update_characteristics) ==
    /\ call' = [NoCall EXCEPT !.op = "read_pickle",
                              !.upd = update_characteristics]
    /\ IF ~IsSet(pickle)
       THEN \* line 89: there is no file to read
            /\ err' = "FileNotFoundError"
            /\ UNCHANGED <<prices_df, tickers, start, end>>
       ELSE \* line 89: the table read is assigned before anything is looked at
            /\ prices_df' = pickle
            /\ IF ~update_characteristics
               THEN /\ err' = "none"
                    /\ UNCHANGED <<tickers, start, end>>
               ELSE IF pickle.nlevels < 2
               THEN \* line 92: get_level_values(1) of a flat index
                    /\ err' = "IndexError"
                    /\ UNCHANGED <<tickers, start, end>>
               ELSE IF NRows(pickle) = 0
               THEN \* line 93: index[[0, -1]] of an empty index
                    /\ err' = "IndexError"
                    /\ tickers' = get_level_values(pickle, 2)
                    /\ UNCHANGED <<start, end>>
               ELSE /\ err' = "none"
                    /\ tickers' = get_level_values(pickle, 2)
                    /\ start' = pickle.index[1]
                    /\ end' = pickle.index[NRows(pickle)]
    /\ UNCHANGED <<returns_df, clean_df, pickle,
                   step1_df, step3_df, dropped_na, dropped_late>>

---------------------------------------------------------------------------
(* The persisted snapshot: Init draws the downloaded panel and the file *)

\* a table with a flat column index, as a download of one ticker is stored
FlatTable ==
    [nlevels |-> 1, index |-> DateIndex(2),
     columns |-> << <<"Adj Close">>, <<"Volume">> >>,
     data |-> << <<Num(1), Num(2)>>, <<Num(0), Num(1)>> >>]

\* the cells of the panels stored: missing, or a value
StoredCells == {NaN, Num(1)}

InitStore ==
    /\ \E n \in 1..MaxPriceDates :
         \E adj \in [1..2 -> [1..n -> StoredCells]],
            vol \in [1..2 -> [1..n -> StoredCells]] :
            Downloaded(n, adj, vol)
    /\ returns_df = Unset
    /\ pickle \in {Unset, FlatTable}
    /\ InitRest

NextStore ==
    \/ \E sel \in Selections : store_pickle(sel)
    \/ \E upd \in BOOLEAN : read_pickle(upd)

SpecStore == InitStore /\ [][NextStore]_vars

---------------------------------------------------------------------------
(* Properties of the cleaning *)

Cleaned == call.op = "preprocess_returns_df"

NoMissing(p) ==
    \A c \in 1..NCols(p) : \A r \in 1..NRows(p) : ~IsNull(p.data[c][r])

LabelSet(p) == {p.columns[c] : c \in 1..NCols(p)}

\* p is a panel as calc_normalized_returns builds it: every column is
\* missing on the first date
FirstDateMissing(p) == \A c \in 1..NCols(p) : IsNull(p.data[c][1])

SeqSet(s) == {s[i] : i \in 1..Len(s)}

\* C1: whenever preprocess_returns_df returns (no exception), the panel it
\* returns has no missing cell, and every remaining column has a value on the
\* panel's first date.
C1_ReturnedPanelHasNoMissingCell ==
    (Cleaned /\ err = "none") =>
        /\ NoMissing(clean_df)
        /\ NRows(clean_df) >= 1
        /\ \A c \in 1..NCols(clean_df) : ~IsNull(clean_df.data[c][1])

\* C1 witness: a run on a panel with missing cells that returned a panel after
\* filling a gap and dropping a late-starting column.
C1_Witness ==
    /\ Cleaned /\ err = "none"
    /\ ~NoMissing(returns_df)
    /\ dropped_late # <<>>
    /\ NCols(clean_df) >= 1
    /\ \E c \in 1..NCols(step1_df) : \E r \in 2..NRows(step1_df) :
          IsNull(step1_df.data[c][r]) /\ ~IsNull(step1_df.data[c][r - 1])

\* C2 as stated: step 1 removes a column iff its missing count is at least
\* nathreshold_ticker x the number of dates (so a column whose count equals
\* the threshold count is removed). Stated for the panels
\* calc_normalized_returns builds.
C2_RemovedIffCountAtLeastThreshold ==
    (Cleaned /\ FirstDateMissing(returns_df)) =>
        \A c \in 1..NCols(returns_df) :
            (returns_df.columns[c] \notin LabelSet(step1_df))
                <=> (tickers_nacount(returns_df)[c] * call.thr[2]
                        >= NRows(returns_df) * call.thr[1])

\* C5: on a return panel without missing values preprocess_returns_df returns
\* the panel unchanged and reports no dropped column; and cleaning the result
\* of any cleaning run again, with any threshold, changes nothing.
C5_CleaningACleanPanelChangesNothing ==
    /\ (Cleaned /\ NoMissing(returns_df)) =>
          /\ err = "none"
          /\ clean_df = returns_df
          /\ dropped_na = <<>>
          /\ dropped_late = <<>>
    /\ (Cleaned /\ err = "none") =>
          \A thr \in Thresholds :
             LET again == Preprocess(clean_df, thr)
             IN  /\ again.err = "none"
                 /\ again.clean = clean_df
                 /\ again.dropped_na = <<>>
                 /\ again.dropped_late = <<>>

\* C5 witness: a panel of several dates without missing values was cleaned.
C5_Witness ==
    /\ Cleaned
    /\ NoMissing(returns_df)
    /\ NRows(returns_df) >= 2
    /\ clean_df = returns_df

\* the rows of p on which some column has a value on that date or before
RowsWithAnchor(p) ==
    {r \in 1..NRows(p) :
        \E c \in 1..NCols(p) : \E q \in 1..r : ~IsNull(p.data[c][q])}

\* the most recent value of the column at or before row r, NaN if none
LastValue(col, r) ==
    IF \A q \in 1..r : IsNull(col[q]) THEN NaN
    ELSE col[CHOOSE q \in 1..r :
                /\ ~IsNull(col[q])
                /\ \A k \in (q + 1)..r : IsNull(col[k])]

\* C9 as stated: after step 3 the first remaining row has no missing value
\* in any column (every leading row with a missing value was removed).
\* Stated for the panels calc_normalized_returns builds.
C9_FirstRowAfterStep3IsComplete ==
    (Cleaned /\ FirstDateMissing(returns_df) /\ NRows(step3_df) >= 1) =>
        \A c \in 1..NCols(step3_df) : ~IsNull(step3_df.data[c][1])

\* C9 as amended: step 3 removes exactly the rows in which every column is
\* still missing after the forward-fill; these rows are a leading run of
\* the panel, the remaining rows keep their forward-filled values, and the
\* first remaining row has a value in at least one column.
C9_Step3RemovesRowsMissingInEveryColumn ==
    Cleaned =>
        LET keep == Positions(NRows(step1_df), RowsWithAnchor(step1_df))
        IN  /\ step3_df.columns = step1_df.columns
            /\ step3_df.index = [i \in 1..Len(keep) |-> step1_df.index[keep[i]]]
            /\ \A i \in 1..Len(keep) :
                  keep[i] = NRows(step1_df) - Len(keep) + i
            /\ \A c \in 1..NCols(step3_df) : \A i \in 1..Len(keep) :
                  step3_df.data[c][i] = LastValue(step1_df.data[c], keep[i])
            /\ NRows(step3_df) >= 1 =>
                  \E c \in 1..NCols(step3_df) : ~IsNull(step3_df.data[c][1])

\* C9 witness: step 3 removed a leading row and the first row it left still
\* has a missing value.
C9_Witness ==
    /\ Cleaned
    /\ NRows(step3_df) >= 1
    /\ NRows(step3_df) < NRows(step1_df)
    /\ \E c \in 1..NCols(step3_df) : IsNull(step3_df.data[c][1])

\* C10 as stated: the columns reported as dropped for missingness are
\* exactly the columns step 1 removes from the working panel. Stated for the
\* panels calc_normalized_returns builds.
C10_ReportedEqualsRemoved ==
    (Cleaned /\ FirstDateMissing(returns_df)) =>
        SeqSet(dropped_na) = LabelSet(returns_df) \ LabelSet(step1_df)

---------------------------------------------------------------------------
(* The end-to-end example: dates 0..9, tickers A, B and C, threshold 0.25 *)

ExampleDates == [i \in 1..10 |-> i - 1]

ExampleColumns ==
    << <<"Adj Close", "A">>, <<"Adj Close", "B">>, <<"Adj Close", "C">> >>

\* the position in ExampleDates of a date
AtDate(d) == d + 1

\* A has no missing value; B's first value is on date 3; C is missing on
\* the dates 1..8 and only there
IsExamplePanel(p) ==
    /\ p.index = ExampleDates
    /\ p.columns = ExampleColumns
    /\ \A d \in 0..9 : ~IsNull(p.data[1][AtDate(d)])
    /\ \A d \in 0..2 : IsNull(p.data[2][AtDate(d)])
    /\ ~IsNull(p.data[2][AtDate(3)])
    /\ \A d \in 0..9 : IsNull(p.data[3][AtDate(d)]) <=> d \in 1..8

InitExample ==
    /\ \E a \in {Num(1), Num(2)}, c0 \in {Num(1), Num(2)} :
       \E b \in [4..9 -> {NaN, Num(1)}] :
          returns_df = Panel(ExampleDates, ExampleColumns,
              << [i \in 1..10 |-> a],
                 [i \in 1..10 |-> IF i - 1 < 3 THEN NaN
                                  ELSE IF i - 1 = 3 THEN Num(2)
                                  ELSE b[i - 1]],
                 [i \in 1..10 |-> IF i - 1 \in 1..8 THEN NaN
                                  ELSE IF i - 1 = 0 THEN c0 ELSE Num(1)] >>)
    /\ prices_df = Unset
    /\ tickers = <<>>
    /\ start = None
    /\ end = None
    /\ pickle = Unset
    /\ InitRest

NextExample == preprocess_returns_df(DefaultThreshold)

SpecExample == InitExample /\ [][NextExample]_vars

LabelA == <<"Adj Close", "A">>
LabelB == <<"Adj Close", "B">>
LabelC == <<"Adj Close", "C">>

\* the cleaned panel of the example holds ticker A's column only, starts on
\* date 0 and has no missing value
ExampleOutputIsA ==
    /\ err = "none"
    /\ clean_df.columns = <<LabelA>>
    /\ clean_df.index[1] = 0
    /\ NoMissing(clean_df)

\* C6 as stated: the output is ticker A alone from date 0 without missing
\* values; C is dropped by the missingness filter (step 1) and B by the
\* late-start filter (step 4), which reports it.
C6_ExampleDropsBAsLateStarter ==
    (Cleaned /\ IsExamplePanel(returns_df)) =>
        /\ ExampleOutputIsA
        /\ LabelC \in SeqSet(dropped_na) /\ LabelC \notin LabelSet(step1_df)
        /\ LabelB \in LabelSet(step1_df)
        /\ LabelB \in SeqSet(dropped_late)

\* C6 as amended: the output is ticker A alone, all ten dates from date 0,
\* without missing values; B (at least 3 missing values, more than 2.5) and
\* C are both dropped and reported by the missingness filter (step 1), and
\* the late-start filter (step 4) drops and reports nothing.
C6_ExampleDropsBForMissingness ==
    (Cleaned /\ IsExamplePanel(returns_df)) =>
        /\ ExampleOutputIsA
        /\ clean_df.index = ExampleDates
        /\ clean_df.data = <<returns_df.data[1]>>
        /\ SeqSet(dropped_na) = {LabelB, LabelC}
        /\ LabelSet(step1_df) = {LabelA}
        /\ dropped_late = <<>>

\* C6 witness: the example was cleaned with B missing again after date 3
C6_Witness ==
    /\ Cleaned
    /\ IsExamplePanel(returns_df)
    /\ call.thr = DefaultThreshold
    /\ IsNull(returns_df.data[2][AtDate(5)])
    /\ clean_df.columns = <<LabelA>>

---------------------------------------------------------------------------
(* Properties of the returns *)

Calculated == call.op = "calc_normalized_returns"

\* the positions of the columns of p labelled `label`
ColumnsLabelled(p, label) == {c \in 1..NCols(p) : p.columns[c] = label}

\* the cell x is the simple return from the price b to the price a
IsSimpleReturn(x, a, b) ==
    /\ x[2] > 0
    /\ x[1] * a[2] * b[1] = x[2] * (a[1] * b[2] - b[1] * a[2])

\* C3: for a selection of indicator codes in any order,
\* calc_normalized_returns yields a panel over the same dates with one column
\* per selected indicator and ticker; the column labelled (I, T) is missing
\* on the first date and holds (price[t] - price[t-1]) / price[t-1] of the
\* price column (I, T) wherever both prices are there (and the earlier one
\* is not zero).
C3_ReturnsAreLabelledWithTheirOwnColumn ==
    Calculated =>
        /\ err = "none"
        /\ returns_df.index = prices_df.index
        /\ NCols(returns_df) = Len(call.sel) * 2
        /\ \A i \in 1..Len(call.sel) : \A T \in {"A", "B"} :
              LET label == <<indicator_translation[call.sel[i]], T>>
                  rc == ColumnsLabelled(returns_df, label)
                  pc == ColumnsLabelled(prices_df, label)
              IN  /\ Cardinality(rc) = 1
                  /\ Cardinality(pc) = 1
                  /\ \A c \in rc : \A k \in pc :
                        /\ IsNull(returns_df.data[c][1])
                        /\ \A t \in 2..NRows(prices_df) :
                              LET a == prices_df.data[k][t]
                                  b == prices_df.data[k][t - 1]
                              IN  (~IsNull(a) /\ ~IsNull(b) /\ b[1] # 0) =>
                                     IsSimpleReturn(returns_df.data[c][t], a, b)

\* C3 witness: the returns of Volume and Adj Close, selected in that order,
\* with a falling price of ticker B.
C3_Witness ==
    /\ Calculated
    /\ call.sel = <<"V", "A">>
    /\ NRows(returns_df) >= 2
    /\ \E c \in ColumnsLabelled(returns_df, <<"Adj Close", "B">>) :
          returns_df.data[c][2] = <<-1, 2>>
    /\ \E c \in ColumnsLabelled(returns_df, <<"Volume", "A">>) :
          returns_df.data[c][2] = Num(0)

\* C7 as stated: wherever the previous price is zero or missing the return is
\* the missing value, and the computation never raises.
C7_ZeroOrMissingPreviousPriceGivesMissing ==
    Calculated =>
        /\ err = "none"
        /\ \A c \in 1..NCols(returns_df) :
              \A k \in ColumnsLabelled(prices_df, returns_df.columns[c]) :
                 \A t \in 2..NRows(prices_df) :
                    (IsNull(prices_df.data[k][t - 1])
                        \/ prices_df.data[k][t - 1] = Num(0))
                    => IsNull(returns_df.data[c][t])

---------------------------------------------------------------------------
(* Properties of the persisted snapshot *)

\* the position of x in the sequence s (0 if it is not there)
IndexOf(s, x) ==
    IF \E i \in 1..Len(s) : s[i] = x
    THEN CHOOSE i \in 1..Len(s) : s[i] = x /\ \A j \in 1..(i - 1) : s[j] # x
    ELSE 0

\* q holds exactly the columns of p whose indicator is one of `names`, each
\* once and with p's cells, ordered as `names` orders their indicators (and
\* as in p within one indicator), over p's dates in p's order
IsProjection(q, p, names) ==
    /\ q.index = p.index
    /\ q.nlevels = p.nlevels
    /\ LabelSet(q) = {l \in LabelSet(p) : IndexOf(names, l[1]) # 0}
    /\ \A c \in 1..NCols(q) :
          /\ Cardinality(ColumnsLabelled(q, q.columns[c])) = 1
          /\ \A k \in ColumnsLabelled(p, q.columns[c]) : q.data[c] = p.data[k]
    /\ \A c1, c2 \in 1..NCols(q) :
          c1 < c2 =>
             LET i1 == IndexOf(names, q.columns[c1][1])
                 i2 == IndexOf(names, q.columns[c2][1])
             IN  \/ i1 < i2
                 \/ /\ i1 = i2
                    /\ \A k1 \in ColumnsLabelled(p, q.columns[c1]) :
                       \A k2 \in ColumnsLabelled(p, q.columns[c2]) : k1 < k2

\* the names of the indicator codes, as the specification lists them
NameOfCode(code) ==
    CASE code = "A" -> "Adj Close"
      [] code = "V" -> "Volume"
      [] OTHER -> "other"

\* C4: a read_pickle that follows a successful store_pickle(indicators)
\* leaves as the store's panel exactly the requested indicator columns of
\* the panel that was saved, in the requested order, with the same cells and
\* the same dates in the same order.
C4_ReadAfterStoreRestoresTheRequestedColumns ==
    [][(call.op = "store_pickle" /\ err = "none" /\ call'.op = "read_pickle")
        => IsProjection(prices_df', prices_df,
              [i \in 1..Len(call.sel) |-> NameOfCode(call.sel[i])])]_vars

\* C4 witness: the panel read back holds Volume before Adj Close, the order
\* requested of store_pickle, and cells of both kinds.
C4_Witness ==
    /\ call.op = "read_pickle"
    /\ err = "none"
    /\ prices_df.columns = from_product(<<"Volume", "Adj Close">>, <<"A", "B">>)
    /\ NRows(prices_df) >= 2
    /\ \E c \in 1..NCols(prices_df) : IsNull(prices_df.data[c][1])
    /\ \E c \in 1..NCols(prices_df) : ~IsNull(prices_df.data[c][1])

\* C8 as stated: read_pickle of a table whose columns are not two-level
\* fails, whatever update_characteristics is, and leaves the panel, the
\* tickers, the start and the end as they were.
C8_MalformedTableIsRejected ==
    [][(call'.op = "read_pickle" /\ pickle.nlevels = 1)
        => /\ err' # "none"
           /\ prices_df' = prices_df
           /\ tickers' = tickers
           /\ start' = start
           /\ end' = end]_vars

====
